---- MODULE Spec2Model ----
(***************************************************************************)
(* A model of the mpris2-zbus client bindings: the typed handles over the  *)
(* MPRIS2 D-Bus interfaces (MediaPlayer, Player), the optional-property    *)
(* rule, the enum parse/format tables and the duration encoding.           *)
(*                                                                         *)
(* Strings are sequences of one-character strings, so that to_lowercase,   *)
(* trim and starts_with are computed character by character.  The 64 and   *)
(* 128 bit integers of the duration encoding are two's complement numbers  *)
(* held as little-endian sequences of 8-bit limbs.                         *)
(***************************************************************************)
EXTENDS Integers, Sequences, FiniteSets, TLC

VARIABLES remote, pc, op, arg, local, io, seen, result

vars == <<remote, pc, op, arg, local, io, seen, result>>

----------------------------------------------------------------------------
(* Bounds of the model *)

\* longest run of whitespace put before and after a status string
MaxPad == 1
\* longest list of names the bus returns
MaxNames == 3
\* the remote's rates range over 0..MaxRate
MaxRate == 1
\* most changes of the remote state while one operation is in flight
MaxChanges == 2

----------------------------------------------------------------------------
(* Characters and strings *)

Upper == <<"A", "B", "C", "D", "E", "F", "G", "H", "I", "J", "K", "L", "M", "N", "O", "P", "Q", "R", "S", "T", "U", "V", "W", "X", "Y", "Z">>
Lower == <<"a", "b", "c", "d", "e", "f", "g", "h", "i", "j", "k", "l", "m", "n", "o", "p", "q", "r", "s", "t", "u", "v", "w", "x", "y", "z">>

\* the white space of the model's alphabet
White == {" ", "\t"}

IndexIn(c, s) == CHOOSE i \in 1..Len(s) : s[i] = c

\* char::to_lowercase on the model's alphabet
ToLowerChar(c) == IF \E i \in 1..Len(Upper) : Upper[i] = c THEN Lower[IndexIn(c, Upper)] ELSE c

\* char::to_uppercase, used to build the inputs
ToUpperChar(c) == IF \E i \in 1..Len(Lower) : Lower[i] = c THEN Upper[IndexIn(c, Lower)] ELSE c

\* str::to_lowercase
to_lowercase(s) == [i \in 1..Len(s) |-> ToLowerChar(s[i])]

to_uppercase(s) == [i \in 1..Len(s) |-> ToUpperChar(s[i])]

RECURSIVE trim_start(_)
trim_start(s) == IF s # <<>> /\ Head(s) \in White THEN trim_start(Tail(s)) ELSE s

RECURSIVE trim_end(_)
trim_end(s) == IF s # <<>> /\ s[Len(s)] \in White THEN trim_end(SubSeq(s, 1, Len(s) - 1)) ELSE s

\* str::trim
trim(s) == trim_end(trim_start(s))

\* str::starts_with
starts_with(s, p) == Len(s) >= Len(p) /\ SubSeq(s, 1, Len(p)) = p

----------------------------------------------------------------------------
(* Results and errors *)

Ok(v) == [ok |-> TRUE, v |-> v]
Err(e) == [ok |-> FALSE, e |-> e]

Some(v) == [some |-> TRUE, v |-> v]
None == [some |-> FALSE]

\* zbus::Error values a round trip can fail with: the remote's error replies
\* arrive as FDO(..), transport failures as other variants
ZbusNotSupported == [kind |-> "FDO", fdo |-> "NotSupported"]
ZbusUnknownProperty == [kind |-> "FDO", fdo |-> "UnknownProperty"]
ZbusInvalidArgs == [kind |-> "FDO", fdo |-> "InvalidArgs"]
ZbusInputOutput == [kind |-> "InputOutput", fdo |-> "none"]

ZbusErrors == {ZbusNotSupported, ZbusUnknownProperty, ZbusInvalidArgs, ZbusInputOutput}

\* impl From<zbus::Error> for Error
ErrorFrom(err) ==
    IF err.kind = "FDO"
    THEN [kind |-> "Fdo", zbus |-> "none", fdo |-> err.fdo]
    ELSE [kind |-> "Zbus", zbus |-> err.kind, fdo |-> "none"]

\* Error::InvalidEnum { got, expected }
InvalidEnum(got, expected) == [kind |-> "InvalidEnum", got |-> got, expected |-> expected]

\* the `?` operator and map_err(Error::from) on a zbus::Result
MapErr(r) == IF r.ok THEN r ELSE Err(ErrorFrom(r.e))

\* handle_optional
handle_optional_AllFdoAbsent(input) ==
    IF input.ok THEN Ok(Some(input.v))
    ELSE IF input.e.kind = "FDO" THEN Ok(None)
    ELSE Err(ErrorFrom(input.e))
handle_optional(input) ==
    IF input.ok THEN Ok(Some(input.v))
    ELSE IF input.e.kind = "FDO" /\ input.e.fdo = "NotSupported" THEN Ok(None)
    ELSE Err(ErrorFrom(input.e))

\* the replies of one round trip whose successful value is drawn from S
Replies(S) == {Ok(v) : v \in S} \cup {Err(e) : e \in ZbusErrors}

----------------------------------------------------------------------------
(* PlaybackStatus *)

PlaybackStatusVariants == <<"Playing", "Paused", "Stopped">>

TokPlaying == <<"p", "l", "a", "y", "i", "n", "g">>
TokPaused == <<"p", "a", "u", "s", "e", "d">>
TokStopped == <<"s", "t", "o", "p", "p", "e", "d">>
DispPlaying == <<"P", "l", "a", "y", "i", "n", "g">>
DispPaused == <<"P", "a", "u", "s", "e", "d">>
DispStopped == <<"S", "t", "o", "p", "p", "e", "d">>

PlaybackStatusExpected == <<DispPlaying, DispPaused, DispStopped>>

\* impl FromStr for PlaybackStatus
PlaybackStatusFromStr_NoTrim(s) ==
    LET t == to_lowercase(s) IN
    IF t = TokPlaying THEN Ok("Playing")
    ELSE IF t = TokPaused THEN Ok("Paused")
    ELSE IF t = TokStopped THEN Ok("Stopped")
    ELSE Err(InvalidEnum(s, PlaybackStatusExpected))
PlaybackStatusFromStr(s) ==
    LET t == trim(to_lowercase(s)) IN
    IF t = TokPlaying THEN Ok("Playing")
    ELSE IF t = TokPaused THEN Ok("Paused")
    ELSE IF t = TokStopped THEN Ok("Stopped")
    ELSE Err(InvalidEnum(s, PlaybackStatusExpected))

\* impl Display for PlaybackStatus
PlaybackStatusDisplay(x) ==
    CASE x = "Playing" -> DispPlaying
      [] x = "Paused" -> DispPaused
      [] x = "Stopped" -> DispStopped

----------------------------------------------------------------------------
(* PlaylistOrdering *)

PlaylistOrderingVariants == <<"Alphabetical", "CreationDate", "ModifiedDate", "LastPlayDate", "UserDefined">>

TokAlphabetical == <<"a", "l", "p", "h", "a", "b", "e", "t", "i", "c", "a", "l">>
TokCreated == <<"c", "r", "e", "a", "t", "e", "d">>
TokModified == <<"m", "o", "d", "i", "f", "i", "e", "d">>
TokPlayed == <<"p", "l", "a", "y", "e", "d">>
TokUser == <<"u", "s", "e", "r">>
DispAlphabetical == <<"A", "l", "p", "h", "a", "b", "e", "t", "i", "c", "a", "l">>
DispCreated == <<"C", "r", "e", "a", "t", "e", "d">>
DispModified == <<"M", "o", "d", "i", "f", "i", "e", "d">>
DispPlayed == <<"P", "l", "a", "y", "e", "d">>
DispUser == <<"U", "s", "e", "r">>

PlaylistOrderingExpected == <<DispAlphabetical, DispCreated, DispModified, DispPlayed, DispUser>>

\* impl FromStr for PlaylistOrdering
PlaylistOrderingFromStr(s) ==
    LET t == trim(to_lowercase(s)) IN
    IF t = TokAlphabetical THEN Ok("Alphabetical")
    ELSE IF t = TokCreated THEN Ok("CreationDate")
    ELSE IF t = TokModified THEN Ok("ModifiedDate")
    ELSE IF t = TokPlayed THEN Ok("LastPlayDate")
    ELSE IF t = TokUser THEN Ok("UserDefined")
    ELSE Err(InvalidEnum(s, PlaylistOrderingExpected))

\* impl Display for PlaylistOrdering
WordCreationDate == <<"C", "r", "e", "a", "t", "i", "o", "n", "D", "a", "t", "e">>
WordModifiedDate == <<"M", "o", "d", "i", "f", "i", "e", "d", "D", "a", "t", "e">>
WordLastPlayDate == <<"L", "a", "s", "t", "P", "l", "a", "y", "D", "a", "t", "e">>
WordUserDefined == <<"U", "s", "e", "r", "D", "e", "f", "i", "n", "e", "d">>
PlaylistOrderingDisplay_VariantNames(x) ==
    CASE x = "Alphabetical" -> DispAlphabetical
      [] x = "CreationDate" -> WordCreationDate
      [] x = "ModifiedDate" -> WordModifiedDate
      [] x = "LastPlayDate" -> WordLastPlayDate
      [] x = "UserDefined" -> WordUserDefined
PlaylistOrderingDisplay(x) ==
    CASE x = "Alphabetical" -> DispAlphabetical
      [] x = "CreationDate" -> DispCreated
      [] x = "ModifiedDate" -> DispModified
      [] x = "LastPlayDate" -> DispPlayed
      [] x = "UserDefined" -> DispUser

----------------------------------------------------------------------------
(* Two's complement integers as little-endian sequences of 8-bit limbs *)

\* limbs of an i64 and of an i128
I64Limbs == 8
I128Limbs == 16

RECURSIVE NatToLimbs(_, _)
NatToLimbs(n, k) == IF k = 0 THEN <<>> ELSE <<n % 2^8>> \o NatToLimbs(n \div 2^8, k - 1)

\* x * m + c, wrapping in Len(x) limbs (m and c small and not negative)
RECURSIVE MulAdd(_, _, _)
MulAdd(x, m, c) ==
    IF x = <<>> THEN <<>>
    ELSE LET t == Head(x) * m + c IN <<t % 2^8>> \o MulAdd(Tail(x), m, t \div 2^8)

\* x + y + c, wrapping in Len(x) limbs
RECURSIVE AddLimbs(_, _, _)
AddLimbs(x, y, c) ==
    IF x = <<>> THEN <<>>
    ELSE LET t == Head(x) + Head(y) + c IN <<t % 2^8>> \o AddLimbs(Tail(x), Tail(y), t \div 2^8)

WrappingNeg(x) == MulAdd([i \in 1..Len(x) |-> 2^8 - 1 - x[i]], 1, 1)

IsNegative(x) == x[Len(x)] >= 2^7
IsZero(x) == \A i \in 1..Len(x) : x[i] = 0
IsPositive(x) == ~IsNegative(x) /\ ~IsZero(x)

\* a small integer as a two's complement number of k limbs
FromInt(v, k) == IF v >= 0 THEN NatToLimbs(v, k) ELSE WrappingNeg(NatToLimbs(-v, k))

\* `as i128` of a narrower signed integer
SignExtend(x, k) == x \o [i \in 1..(k - Len(x)) |-> IF IsNegative(x) THEN 2^8 - 1 ELSE 0]

\* `as i64` of an i128: the low 64 bits
as_i64(x) == SubSeq(x, 1, I64Limbs)

\* Rust's `/` and `%` on signed integers truncate toward zero
TruncDiv(a, b) == IF a >= 0 THEN a \div b ELSE -((-a) \div b)
TruncRem(a, b) == a - b * TruncDiv(a, b)

----------------------------------------------------------------------------
(* time::Duration: whole seconds (i64) and nanoseconds of the same sign *)

MicrosPerSecond == 1000000
NanosPerMicro == 1000

\* Duration::whole_microseconds: seconds as i128 * 1_000_000 + nanoseconds / 1_000
whole_microseconds(d) ==
    AddLimbs(MulAdd(SignExtend(d.seconds, I128Limbs), MicrosPerSecond, 0),
             FromInt(TruncDiv(d.nanoseconds, NanosPerMicro), I128Limbs), 0)

\* Duration::microseconds of a small i64
DurationMicroseconds(v) ==
    [seconds |-> FromInt(TruncDiv(v, MicrosPerSecond), I64Limbs),
     nanoseconds |-> TruncRem(v, MicrosPerSecond) * NanosPerMicro]

\* the offset passed to Seek and the position passed to SetPosition
MicrosArg(d) == as_i64(whole_microseconds(d))

OneLimb(b, k) == [i \in 1..I64Limbs |-> IF i = k THEN b ELSE 0]

\* whole seconds b * 256^(k-1), and no seconds at all
SecondsInputs == {OneLimb(b, k) : b \in {1, 4, 9}, k \in 1..I64Limbs} \cup {OneLimb(0, 1)}

NanosInputs == {0, 999, 1000, 999999999}

DurationInputs ==
    {[seconds |-> s, nanoseconds |-> n] : s \in SecondsInputs, n \in NanosInputs}
    \cup {[seconds |-> WrappingNeg(s), nanoseconds |-> -n] : s \in SecondsInputs, n \in NanosInputs}

DurationIsPositive(d) == IsPositive(d.seconds) \/ (IsZero(d.seconds) /\ d.nanoseconds > 0)
DurationIsNegative(d) == IsNegative(d.seconds) \/ (IsZero(d.seconds) /\ d.nanoseconds < 0)

----------------------------------------------------------------------------
(* The bus, the remote player and the inputs *)

MprisPrefix == <<"o", "r", "g", ".", "m", "p", "r", "i", "s", ".", "M", "e", "d", "i", "a", "P", "l", "a", "y", "e", "r", "2", ".">>

NameVlc == <<"o", "r", "g", ".", "m", "p", "r", "i", "s", ".", "M", "e", "d", "i", "a", "P", "l", "a", "y", "e", "r", "2", ".", "v", "l", "c">>
NameMpv == <<"o", "r", "g", ".", "m", "p", "r", "i", "s", ".", "M", "e", "d", "i", "a", "P", "l", "a", "y", "e", "r", "2", ".", "m", "p", "v">>
NameNotifications == <<"o", "r", "g", ".", "f", "r", "e", "e", "d", "e", "s", "k", "t", "o", "p", ".", "N", "o", "t", "i", "f", "i", "c", "a", "t", "i", "o", "n", "s">>
NameNoDot == <<"o", "r", "g", ".", "m", "p", "r", "i", "s", ".", "M", "e", "d", "i", "a", "P", "l", "a", "y", "e", "r", "2">>
NameOtherCase == <<"o", "r", "g", ".", "m", "p", "r", "i", "s", ".", "m", "e", "d", "i", "a", "p", "l", "a", "y", "e", "r", "2", ".", "v", "l", "c">>

NamePool == {NameVlc, NameMpv, NameNotifications, NameNoDot, NameOtherCase}

SeqsUpTo(S, n) == UNION {[1..k -> S] : k \in 0..n}

\* the lists of names ListNames can return
NameLists == SeqsUpTo(NamePool, MaxNames)

WordBuffering == <<"b", "u", "f", "f", "e", "r", "i", "n", "g">>
WordPlayIng == <<"p", "l", "a", "y", " ", "i", "n", "g">>
WordPlayin == <<"p", "l", "a", "y", "i", "n">>

Capitalise(w) == [i \in 1..Len(w) |-> IF i = 1 THEN ToUpperChar(w[i]) ELSE w[i]]
Pads == SeqsUpTo(White, MaxPad)
StatusWords ==
    UNION {{w, Capitalise(w), to_uppercase(w)} :
           w \in {TokPlaying, TokPaused, TokStopped, TokCreated, WordBuffering, WordPlayIng, WordPlayin}}
    \cup {<<>>}

\* the strings the PlaybackStatus property can hold
StatusInputs == {l \o w \o r : l \in Pads, w \in StatusWords, r \in Pads}

Rates == 0..MaxRate
PositionValues == {-2500001, -1, 0, 1, 2500001}
Tracks == {"/track/1", "/track/2"}

\* the state of the remote player that the multi round trip operations read
RemoteStates == [can_seek : BOOLEAN, minimum_rate : Rates, maximum_rate : Rates]

RatesView(r) == <<r.minimum_rate, r.maximum_rate>>

\* one round trip: a property read, a method call, a proxy build
Get(member, reply) == [kind |-> "get", member |-> member, reply |-> reply]
Call(member, args, reply) == [kind |-> "call", member |-> member, args |-> args, reply |-> reply]
Build(iface, destination, reply) == [kind |-> "build", member |-> iface, args |-> destination, reply |-> reply]

Unit == "()"
Pending == [pending |-> TRUE]
NoArg == <<>>

----------------------------------------------------------------------------
(* The state machine *)

Init ==
    /\ remote \in RemoteStates
    /\ pc = "idle"
    /\ op = "none"
    /\ arg = NoArg
    /\ local = <<>>
    /\ io = <<>>
    /\ seen = <<>>
    /\ result = Pending

\* an operation that is one await: its round trips and its result
Finish(name, a, trips, res) ==
    /\ pc = "idle"
    /\ pc' = "done"
    /\ op' = name
    /\ arg' = a
    /\ local' = <<>>
    /\ io' = trips
    /\ seen' = <<>>
    /\ result' = res
    /\ UNCHANGED remote

\* the part of the remote state an operation in flight has read or acts on
View(p, r) == IF p = "seek_call" THEN r.can_seek ELSE RatesView(r)

\* the remote player, or another client, changes the remote state; seen is
\* the history of the view of the operation in flight
RemoteChange ==
    /\ \E r \in RemoteStates \ {remote} :
        /\ remote' = r
        /\ IF pc \in {"seek_call", "rates_max"} /\ View(pc, r) # View(pc, remote)
           THEN Len(seen) <= MaxChanges /\ seen' = Append(seen, View(pc, r))
           ELSE seen' = seen
    /\ UNCHANGED <<pc, op, arg, local, io, result>>

\* Player::position
position(r) == handle_optional(IF r.ok THEN Ok(DurationMicroseconds(r.v)) ELSE r)
Position ==
    /\ pc = "idle"
    /\ \E r \in Replies(PositionValues) : Finish("position", NoArg, <<Get("Position", r)>>, position(r))

\* Player::rate
Rate ==
    /\ pc = "idle"
    /\ \E r \in Replies(Rates) : Finish("rate", NoArg, <<Get("Rate", r)>>, handle_optional(r))

\* Player::minimum_rate
MinimumRate ==
    /\ pc = "idle"
    /\ \E r \in Replies({remote.minimum_rate}) :
           Finish("minimum_rate", NoArg, <<Get("MinimumRate", r)>>, handle_optional(r))

\* Player::maximum_rate
MaximumRate ==
    /\ pc = "idle"
    /\ \E r \in Replies({remote.maximum_rate}) :
           Finish("maximum_rate", NoArg, <<Get("MaximumRate", r)>>, handle_optional(r))

\* Player::playback_status
playback_status(r) == IF MapErr(r).ok THEN PlaybackStatusFromStr(r.v) ELSE MapErr(r)
PlaybackStatus ==
    /\ pc = "idle"
    /\ \E r \in Replies(StatusInputs) :
           Finish("playback_status", NoArg, <<Get("PlaybackStatus", r)>>, playback_status(r))

\* Player::set_position
SetPosition ==
    /\ pc = "idle"
    /\ \E t \in Tracks, d \in DurationInputs, r \in Replies({Unit}) :
           Finish("set_position", [track |-> t, position |-> d],
                  <<Call("SetPosition", <<t, MicrosArg(d)>>, r)>>, MapErr(r))

\* Player::seek, up to the reply to the read of CanSeek
SeekCheck_Ungated ==
    /\ pc = "idle"
    /\ \E d \in DurationInputs, r \in Replies({remote.can_seek}) :
        /\ op' = "seek"
        /\ arg' = d
        /\ io' = <<Get("CanSeek", r)>>
        /\ IF ~r.ok THEN pc' = "done" /\ result' = Err(ErrorFrom(r.e))
           ELSE pc' = "seek_call" /\ result' = Pending
    /\ local' = <<>>
    /\ seen' = <<remote.can_seek>>
    /\ UNCHANGED remote
SeekCheck ==
    /\ pc = "idle"
    /\ \E d \in DurationInputs, r \in Replies({remote.can_seek}) :
        /\ op' = "seek"
        /\ arg' = d
        /\ io' = <<Get("CanSeek", r)>>
        /\ IF ~r.ok THEN pc' = "done" /\ result' = Err(ErrorFrom(r.e))
           ELSE IF r.v THEN pc' = "seek_call" /\ result' = Pending
           ELSE pc' = "done" /\ result' = Ok(FALSE)
    /\ local' = <<>>
    /\ seen' = <<remote.can_seek>>
    /\ UNCHANGED remote

\* Player::seek, the Seek method call
SeekCall ==
    /\ pc = "seek_call"
    /\ \E r \in Replies({Unit}) :
        /\ io' = Append(io, Call("Seek", <<MicrosArg(arg)>>, r))
        /\ result' = IF r.ok THEN Ok(TRUE) ELSE Err(ErrorFrom(r.e))
    /\ pc' = "done"
    /\ UNCHANGED <<remote, op, arg, local, seen>>

\* minimum..=maximum
RangeInclusive_Swapped(minimum, maximum) == [start |-> maximum, end |-> minimum]
RangeInclusive(minimum, maximum) == [start |-> minimum, end |-> maximum]

\* Player::available_rates, up to the reply to the read of MinimumRate
AvailableRatesMin ==
    /\ pc = "idle"
    /\ \E r \in Replies({remote.minimum_rate}) :
        LET minimum == handle_optional(r) IN
        /\ io' = <<Get("MinimumRate", r)>>
        /\ IF ~minimum.ok THEN pc' = "done" /\ result' = minimum /\ local' = <<>>
           ELSE IF minimum.v.some THEN pc' = "rates_max" /\ result' = Pending /\ local' = <<minimum.v.v>>
           ELSE pc' = "done" /\ result' = Ok(None) /\ local' = <<>>
    /\ op' = "available_rates"
    /\ arg' = NoArg
    /\ seen' = <<RatesView(remote)>>
    /\ UNCHANGED remote

\* Player::available_rates, the read of MaximumRate
AvailableRatesMax_ReadsMinimum ==
    /\ pc = "rates_max"
    /\ \E r \in Replies({remote.minimum_rate}) :
        LET maximum == handle_optional(r) IN
        /\ io' = Append(io, Get("MaximumRate", r))
        /\ IF ~maximum.ok THEN result' = maximum
           ELSE IF maximum.v.some THEN result' = Ok(Some(RangeInclusive(local[1], maximum.v.v)))
           ELSE result' = Ok(None)
    /\ pc' = "done"
    /\ UNCHANGED <<remote, op, arg, local, seen>>
AvailableRatesMax ==
    /\ pc = "rates_max"
    /\ \E r \in Replies({remote.maximum_rate}) :
        LET maximum == handle_optional(r) IN
        /\ io' = Append(io, Get("MaximumRate", r))
        /\ IF ~maximum.ok THEN result' = maximum
           ELSE IF maximum.v.some THEN result' = Ok(Some(RangeInclusive(local[1], maximum.v.v)))
           ELSE result' = Ok(None)
    /\ pc' = "done"
    /\ UNCHANGED <<remote, op, arg, local, seen>>

----------------------------------------------------------------------------
(* MediaPlayer *)

\* fdo::Error values ListNames can fail with
FdoErrors == {[fdo |-> "ZBus", zbus |-> "InputOutput"], [fdo |-> "AccessDenied", zbus |-> "none"]}

\* impl From<zbus::fdo::Error> for Error
ErrorFromFdo(err) ==
    IF err.fdo = "ZBus"
    THEN [kind |-> "Zbus", zbus |-> err.zbus, fdo |-> "none"]
    ELSE [kind |-> "Fdo", zbus |-> "none", fdo |-> err.fdo]

ProxyReplies == {Ok("proxy"), Err(ZbusInputOutput), Err(ZbusInvalidArgs)}
ListReplies == {Ok(l) : l \in NameLists} \cup {Err(e) : e \in FdoErrors}

MediaPlayerHandle(name) == [iface |-> "org.mpris.MediaPlayer2", destination |-> name]
TrackListHandle(name) == [iface |-> "org.mpris.MediaPlayer2.TrackList", destination |-> name]

\* the loop of available_players over the names the bus returned
RECURSIVE FilterPlayers_Contains(_)
FilterPlayers_Contains(names) ==
    IF names = <<>> THEN <<>>
    ELSE (IF \E i \in 1..Len(Head(names)) :
                starts_with(SubSeq(Head(names), i, Len(Head(names))), SubSeq(MprisPrefix, 1, Len(MprisPrefix) - 1))
          THEN <<Head(names)>> ELSE <<>>)
         \o FilterPlayers_Contains(Tail(names))
RECURSIVE FilterPlayers(_)
FilterPlayers(names) ==
    IF names = <<>> THEN <<>>
    ELSE (IF starts_with(Head(names), MprisPrefix) THEN <<Head(names)>> ELSE <<>>)
         \o FilterPlayers(Tail(names))

\* MediaPlayer::available_players, given the outcome b of building the DBus
\* proxy and the reply l to ListNames
available_players(b, l) ==
    IF ~b.ok
    THEN [io |-> <<Build("org.freedesktop.DBus", "/org/freedesktop/DBus", b)>>,
          result |-> Err(ErrorFrom(b.e))]
    ELSE LET trips == <<Build("org.freedesktop.DBus", "/org/freedesktop/DBus", b),
                        Call("ListNames", <<>>, l)>> IN
         IF ~l.ok THEN [io |-> trips, result |-> Err(ErrorFromFdo(l.e))]
         ELSE [io |-> trips, result |-> Ok(FilterPlayers(l.v))]

AvailablePlayers ==
    /\ pc = "idle"
    /\ \E b \in ProxyReplies :
           IF ~b.ok THEN Finish("available_players", NoArg, available_players(b, b).io, available_players(b, b).result)
           ELSE \E l \in ListReplies :
                    Finish("available_players", NoArg, available_players(b, l).io, available_players(b, l).result)

\* the loop of new_all: MediaPlayer::new for each player, c[i] the outcome of
\* the i-th connect
RECURSIVE ConnectLoop_BestEffort(_, _, _, _, _)
ConnectLoop_BestEffort(players, c, i, instances, trips) ==
    IF i > Len(players) THEN [io |-> trips, result |-> Ok(instances)]
    ELSE LET t == Append(trips, Build("org.mpris.MediaPlayer2", players[i], c[i])) IN
         IF c[i].ok
         THEN ConnectLoop_BestEffort(players, c, i + 1, Append(instances, MediaPlayerHandle(players[i])), t)
         ELSE ConnectLoop_BestEffort(players, c, i + 1, instances, t)
RECURSIVE ConnectLoop(_, _, _, _, _)
ConnectLoop(players, c, i, instances, trips) ==
    IF i > Len(players) THEN [io |-> trips, result |-> Ok(instances)]
    ELSE LET t == Append(trips, Build("org.mpris.MediaPlayer2", players[i], c[i])) IN
         IF c[i].ok
         THEN ConnectLoop(players, c, i + 1, Append(instances, MediaPlayerHandle(players[i])), t)
         ELSE [io |-> t, result |-> Err(ErrorFrom(c[i].e))]

\* MediaPlayer::new_all
new_all(b, l, c) ==
    LET players == available_players(b, l) IN
    IF ~players.result.ok THEN players
    ELSE ConnectLoop(players.result.v, c, 1, <<>>, players.io)

NewAll ==
    /\ pc = "idle"
    /\ \E b \in ProxyReplies :
           IF ~b.ok THEN Finish("new_all", NoArg, new_all(b, b, <<>>).io, new_all(b, b, <<>>).result)
           ELSE \E l \in ListReplies :
                    IF ~l.ok THEN Finish("new_all", NoArg, new_all(b, l, <<>>).io, new_all(b, l, <<>>).result)
                    ELSE \E c \in [1..Len(FilterPlayers(l.v)) -> ProxyReplies] :
                             Finish("new_all", NoArg, new_all(b, l, c).io, new_all(b, l, c).result)

\* MediaPlayer::track_list of the handle bound to destination d, given the
\* reply r to the read of HasTrackList and the outcome b of building the proxy
track_list_Unprobed(d, r, b) ==
    IF ~r.ok \/ r.v
    THEN [io |-> <<Get("HasTrackList", r), Build("org.mpris.MediaPlayer2.TrackList", d, b)>>,
          result |-> IF b.ok THEN Ok(Some(TrackListHandle(d))) ELSE Err(ErrorFrom(b.e))]
    ELSE [io |-> <<Get("HasTrackList", r)>>, result |-> Ok(None)]
track_list(d, r, b) ==
    IF ~r.ok THEN [io |-> <<Get("HasTrackList", r)>>, result |-> Err(ErrorFrom(r.e))]
    ELSE IF r.v
    THEN [io |-> <<Get("HasTrackList", r), Build("org.mpris.MediaPlayer2.TrackList", d, b)>>,
          result |-> IF b.ok THEN Ok(Some(TrackListHandle(d))) ELSE Err(ErrorFrom(b.e))]
    ELSE [io |-> <<Get("HasTrackList", r)>>, result |-> Ok(None)]

TrackList ==
    /\ pc = "idle"
    /\ \E d \in {NameVlc, NameMpv}, r \in Replies(BOOLEAN), b \in ProxyReplies :
           Finish("track_list", MediaPlayerHandle(d), track_list(d, r, b).io, track_list(d, r, b).result)

----------------------------------------------------------------------------
(* Formatting a variant and parsing the text back *)

Range(f) == {f[i] : i \in DOMAIN f}

FormatParsePlaybackStatus ==
    /\ pc = "idle"
    /\ \E x \in Range(PlaybackStatusVariants) :
           Finish("format_parse_playback_status", [variant |-> x, text |-> PlaybackStatusDisplay(x)],
                  <<>>, PlaybackStatusFromStr(PlaybackStatusDisplay(x)))

FormatParsePlaylistOrdering ==
    /\ pc = "idle"
    /\ \E x \in Range(PlaylistOrderingVariants) :
           Finish("format_parse_playlist_ordering", [variant |-> x, text |-> PlaylistOrderingDisplay(x)],
                  <<>>, PlaylistOrderingFromStr(PlaylistOrderingDisplay(x)))

----------------------------------------------------------------------------

\* the caller takes the result; the handles keep nothing of the operation
Return ==
    /\ pc = "done"
    /\ pc' = "idle"
    /\ op' = "none"
    /\ arg' = NoArg
    /\ local' = <<>>
    /\ io' = <<>>
    /\ seen' = <<>>
    /\ result' = Pending
    /\ UNCHANGED remote

Next ==
    \/ RemoteChange
    \/ Position
    \/ Rate
    \/ MinimumRate
    \/ MaximumRate
    \/ PlaybackStatus
    \/ SetPosition
    \/ SeekCheck
    \/ SeekCall
    \/ AvailableRatesMin
    \/ AvailableRatesMax
    \/ AvailablePlayers
    \/ NewAll
    \/ TrackList
    \/ FormatParsePlaybackStatus
    \/ FormatParsePlaylistOrdering
    \/ Return

Spec == Init /\ [][Next]_vars

----------------------------------------------------------------------------
(* Properties *)

Done(name) == pc = "done" /\ op = name

\* the reply failed with the remote's "not supported" error
NotSupported(r) == ~r.ok /\ r.e = ZbusNotSupported

\* C1: an optional property read (position, rate, minimum_rate, maximum_rate)
\* that succeeds with v yields present(v), also for v = 0; one that fails with
\* "not supported" yields absent and no error; one that fails with any other
\* error yields an error, never absent.
C1_OptionalProperty ==
    (pc = "done" /\ op \in {"position", "rate", "minimum_rate", "maximum_rate"}) =>
        LET r == io[1].reply IN
        /\ Len(io) = 1
        /\ r.ok =>
            /\ result.ok /\ result.v.some
            /\ op # "position" => result.v.v = r.v
            /\ op = "position" => whole_microseconds(result.v.v) = FromInt(r.v, I128Limbs)
        /\ NotSupported(r) => result.ok /\ ~result.v.some
        /\ (~r.ok /\ ~NotSupported(r)) => ~result.ok

C1_Witness ==
    /\ Done("rate")
    /\ io[1].reply = Err(ZbusNotSupported)
    /\ result = Ok(None)

C1_WitnessZero ==
    /\ Done("position")
    /\ io[1].reply = Ok(0)
    /\ result.ok /\ result.v.some /\ IsZero(result.v.v.seconds) /\ result.v.v.nanoseconds = 0

SeekCalls == {i \in 1..Len(io) : io[i].kind = "call" /\ io[i].member = "Seek"}

\* C2: seek reads can_seek first; when the read returns false it returns
\* Ok(false) and issues no Seek call; when the read fails it returns the error
\* and issues no Seek call; only when the read returns true is exactly one Seek
\* call issued, and Ok(true) is returned only if that call succeeded.
C2_SeekGating ==
    /\ pc = "seek_call" => op = "seek" /\ io = <<Get("CanSeek", Ok(TRUE))>>
    /\ Done("seek") =>
        LET check == io[1].reply IN
        /\ io[1].kind = "get" /\ io[1].member = "CanSeek"
        /\ IF ~check.ok THEN SeekCalls = {} /\ ~result.ok /\ result.e = ErrorFrom(check.e)
           ELSE IF ~check.v THEN SeekCalls = {} /\ result = Ok(FALSE)
           ELSE /\ SeekCalls = {2} /\ Len(io) = 2
                /\ io[2].reply.ok => result = Ok(TRUE)
                /\ ~io[2].reply.ok => ~result.ok /\ result.e = ErrorFrom(io[2].reply.e)

C2_Witness ==
    /\ Done("seek")
    /\ io = <<Get("CanSeek", Ok(FALSE))>>
    /\ result = Ok(FALSE)

\* C3: available_rates reads the minimum first and the maximum second; the
\* range is present only if both are, and is then minimum..=maximum; when the
\* minimum is absent or its read fails the maximum is never read; an absent
\* bound makes the range absent; an error other than "not supported" on either
\* read is an error, not absent.
C3_AvailableRates ==
    /\ pc = "rates_max" => op = "available_rates" /\ Len(io) = 1 /\ io[1].reply.ok
    /\ Done("available_rates") =>
        LET lo == io[1].reply IN
        /\ io[1].member = "MinimumRate"
        /\ IF NotSupported(lo) THEN Len(io) = 1 /\ result = Ok(None)
           ELSE IF ~lo.ok THEN Len(io) = 1 /\ ~result.ok /\ result.e = ErrorFrom(lo.e)
           ELSE /\ Len(io) = 2 /\ io[2].member = "MaximumRate"
                /\ LET hi == io[2].reply IN
                   IF NotSupported(hi) THEN result = Ok(None)
                   ELSE IF ~hi.ok THEN ~result.ok /\ result.e = ErrorFrom(hi.e)
                   ELSE result = Ok(Some([start |-> lo.v, end |-> hi.v]))

C3_Witness ==
    /\ Done("available_rates")
    /\ Len(io) = 2
    /\ io[1].reply.ok
    /\ io[2].reply = Err(ZbusNotSupported)
    /\ result = Ok(None)

\* the name lies in the MPRIS2 namespace
InNamespace(n) == Len(n) >= Len(MprisPrefix) /\ \A k \in 1..Len(MprisPrefix) : n[k] = MprisPrefix[k]

\* f is the subsequence of l of the names in the namespace, order and
\* duplicates kept
IsNamespaceSubsequence(f, l) ==
    LET idx == {i \in 1..Len(l) : InNamespace(l[i])} IN
    /\ Len(f) = Cardinality(idx)
    /\ \A k \in 1..Len(f) :
        f[k] = l[CHOOSE i \in idx : Cardinality({j \in idx : j < i}) = k - 1]

Connects == SelectSeq(io, LAMBDA t : t.kind = "build" /\ t.member = "org.mpris.MediaPlayer2")

\* C4: new_all connects to the discovered names in discovery order; if
\* discovery or any connect fails the call returns that error, with no handles
\* and no connect attempted after the failing one; if every connect succeeds
\* it returns one handle per discovered name, in discovery order.
C4_NewAllFailFast ==
    Done("new_all") =>
        IF ~io[1].reply.ok THEN Len(io) = 1 /\ ~result.ok /\ result.e = ErrorFrom(io[1].reply.e)
        ELSE IF ~io[2].reply.ok THEN Len(io) = 2 /\ ~result.ok /\ result.e = ErrorFromFdo(io[2].reply.e)
        ELSE LET names == io[2].reply.v
                 n == Len(Connects) IN
             /\ Len(io) = 2 + n
             /\ \E players \in SeqsUpTo(Range(names), Len(names)) :
                 /\ IsNamespaceSubsequence(players, names)
                 /\ n <= Len(players)
                 /\ \A i \in 1..n : Connects[i].args = players[i]
                 /\ \A i \in 1..(n - 1) : Connects[i].reply.ok
                 /\ IF n > 0 /\ ~Connects[n].reply.ok
                    THEN ~result.ok /\ result.e = ErrorFrom(Connects[n].reply.e)
                    ELSE /\ n = Len(players)
                         /\ result = Ok([i \in 1..n |-> MediaPlayerHandle(players[i])])

C4_Witness ==
    /\ Done("new_all")
    /\ Len(io) = 4
    /\ io[2].reply.ok /\ Len(io[2].reply.v) = 3 /\ \A i \in 1..3 : InNamespace(io[2].reply.v[i])
    /\ io[3].reply.ok
    /\ ~io[4].reply.ok
    /\ ~result.ok

\* C5: track_list reads has_track_list first; when it is false the result is
\* absent and no TrackList handle is built; when the read fails the error is
\* returned and no handle is built; a handle bound to the destination of the
\* MediaPlayer handle is built and returned only when the read returned true.
C5_TrackListProbe ==
    Done("track_list") =>
        LET probe == io[1].reply
            builds == {i \in 1..Len(io) : io[i].kind = "build"} IN
        /\ io[1].kind = "get" /\ io[1].member = "HasTrackList"
        /\ IF ~probe.ok THEN builds = {} /\ ~result.ok /\ result.e = ErrorFrom(probe.e)
           ELSE IF ~probe.v THEN builds = {} /\ result = Ok(None)
           ELSE /\ builds = {2} /\ Len(io) = 2
                /\ io[2].member = "org.mpris.MediaPlayer2.TrackList"
                /\ io[2].args = arg.destination
                /\ io[2].reply.ok =>
                    result = Ok(Some([iface |-> "org.mpris.MediaPlayer2.TrackList",
                                      destination |-> arg.destination]))
                /\ ~io[2].reply.ok => ~result.ok

C5_Witness ==
    /\ Done("track_list")
    /\ io = <<Get("HasTrackList", Ok(FALSE))>>
    /\ result = Ok(None)

\* C6: available_players returns exactly the subsequence of the names the bus
\* returned that begin with "org.mpris.MediaPlayer2.", in the bus's order,
\* duplicates kept; a bus exposing the vlc player and the notification service
\* yields the vlc name alone; if listing fails the error is returned and no
\* names.
C6_Discovery ==
    Done("available_players") =>
        IF ~io[1].reply.ok THEN Len(io) = 1 /\ ~result.ok
        ELSE LET l == io[2].reply IN
             /\ io[2].member = "ListNames"
             /\ ~l.ok => ~result.ok /\ result.e = ErrorFromFdo(l.e)
             /\ l.ok =>
                 /\ result.ok
                 /\ IsNamespaceSubsequence(result.v, l.v)
                 /\ \A k \in 1..Len(result.v) : InNamespace(result.v[k])
                 /\ l.v = <<NameVlc, NameNotifications>> => result.v = <<NameVlc>>

C6_Witness ==
    /\ Done("available_players")
    /\ Len(io) = 2
    /\ io[2].reply = Ok(<<NameVlc, NameNotifications>>)
    /\ result = Ok(<<NameVlc>>)

\* s, rid of the white space around it, equals tok but for the case of its
\* letters
MatchesToken(s, tok) ==
    \E i \in 1..(Len(s) + 1) :
        /\ i + Len(tok) - 1 <= Len(s)
        /\ \A k \in 1..(i - 1) : s[k] \in White
        /\ \A k \in (i + Len(tok))..Len(s) : s[k] \in White
        /\ \A k \in 1..Len(tok) : s[i + k - 1] \in {tok[k], ToUpperChar(tok[k])}

StatusToken(x) ==
    CASE x = "Playing" -> TokPlaying
      [] x = "Paused" -> TokPaused
      [] x = "Stopped" -> TokStopped

\* C7: playback_status yields Playing / Paused / Stopped exactly when the
\* string read, trimmed and compared without regard to case, is "playing" /
\* "paused" / "stopped"; any other string yields InvalidEnum with the string
\* read as got and Playing, Paused, Stopped as expected, never a default
\* variant; a failed read yields its own error, never InvalidEnum.
C7_PlaybackStatus ==
    Done("playback_status") =>
        LET r == io[1].reply IN
        IF ~r.ok THEN ~result.ok /\ result.e.kind # "InvalidEnum" /\ result.e = ErrorFrom(r.e)
        ELSE /\ \A x \in Range(PlaybackStatusVariants) :
                 (result.ok /\ result.v = x) <=> MatchesToken(r.v, StatusToken(x))
             /\ (\A x \in Range(PlaybackStatusVariants) : ~MatchesToken(r.v, StatusToken(x))) =>
                 /\ ~result.ok
                 /\ result.e.kind = "InvalidEnum"
                 /\ result.e.got = r.v
                 /\ result.e.expected = <<DispPlaying, DispPaused, DispStopped>>

C7_Witness ==
    /\ Done("playback_status")
    /\ io[1].reply = Ok(<<" ">> \o to_uppercase(TokPaused) \o <<"\t">>)
    /\ result = Ok("Paused")

C7_WitnessInvalid ==
    /\ Done("playback_status")
    /\ io[1].reply = Ok(WordBuffering)
    /\ result = Err(InvalidEnum(WordBuffering, <<DispPlaying, DispPaused, DispStopped>>))

\* C8: for every variant x of PlaybackStatus and of PlaylistOrdering, parsing
\* the display string of x succeeds and yields x; the display strings of two
\* variants of one enum differ.
C8_EnumRoundTrip ==
    /\ (pc = "done" /\ op \in {"format_parse_playback_status", "format_parse_playlist_ordering"}) =>
        result.ok /\ result.v = arg.variant
    /\ Done("format_parse_playback_status") =>
        \A y \in Range(PlaybackStatusVariants) :
            PlaybackStatusDisplay(y) = arg.text => y = arg.variant
    /\ Done("format_parse_playlist_ordering") =>
        \A y \in Range(PlaylistOrderingVariants) :
            PlaylistOrderingDisplay(y) = arg.text => y = arg.variant

C8_Witness ==
    /\ Done("format_parse_playlist_ordering")
    /\ arg.variant = "CreationDate"
    /\ result = Ok("CreationDate")

\* the duration is shorter than one microsecond
SubMicrosecond(d) == IsZero(d.seconds) /\ d.nanoseconds < NanosPerMicro /\ -d.nanoseconds < NanosPerMicro

\* the 64-bit offset carries the duration's whole microseconds and its sign
OffsetFaithful(d, offset) ==
    /\ SignExtend(offset, I128Limbs) = whole_microseconds(d)
    /\ (DurationIsPositive(d) /\ ~SubMicrosecond(d)) => IsPositive(offset)
    /\ (DurationIsNegative(d) /\ ~SubMicrosecond(d)) => IsNegative(offset)
    /\ IsZero(offset) => SubMicrosecond(d)

\* C9: the offset of the Seek call, and the position of the SetPosition call,
\* is the duration's whole number of microseconds as a signed 64-bit integer,
\* for every duration: positive for a positive duration, negative for a
\* negative one, zero only for durations shorter than a microsecond; the
\* narrowing to 64 bits changes neither the value nor its sign.
C9_SeekOffsetEncoding ==
    /\ (Done("seek") /\ Len(io) = 2) => OffsetFaithful(arg, io[2].args[1])
    /\ Done("set_position") => OffsetFaithful(arg.position, io[1].args[2])

\* C10 as claimed: a Seek call reaches the remote only while the remote's
\* can_seek is true, and a present range is the minimum and the maximum of one
\* remote state the operation passed through.
C10_AtomicCheckThenAct ==
    /\ (Done("seek") /\ Len(io) = 2) => seen[Len(seen)] = TRUE
    /\ (Done("available_rates") /\ result.ok /\ result.v.some) =>
        \E k \in 1..Len(seen) : seen[k] = <<result.v.v.start, result.v.v.end>>

\* C10, amended: a Seek call is issued only if the remote's can_seek was true
\* when the check read it, and a present range is the remote's minimum as of
\* the first read and the remote's maximum as of the second read.
C10_ReadsAtTheirOwnTime ==
    /\ (Done("seek") /\ Len(io) = 2) => seen[1] = TRUE
    /\ (Done("available_rates") /\ result.ok /\ result.v.some) =>
        /\ result.v.v.start = seen[1][1]
        /\ result.v.v.end = seen[Len(seen)][2]

C10_Witness ==
    /\ Done("available_rates")
    /\ result.ok /\ result.v.some
    /\ Len(seen) > 1
    /\ seen[1][1] # seen[Len(seen)][1]
    /\ seen[1][2] # seen[Len(seen)][2]

====
